---- MODULE Spec2Model ----
(***************************************************************************)
(* Notification dispatch subsystem of the school-management backend:       *)
(* recipient resolution, enqueue with degraded mode, the Bull worker that  *)
(* delivers through OneSignal and FCM, device registration and the listing *)
(* of the queue history.                                                    *)
(***************************************************************************)
EXTENDS Integers, Sequences, FiniteSets, TLC

\* ------------------------------------------------------------------------
\* Bounds and program constants
\* ------------------------------------------------------------------------
MaxJobs == 1
MaxClock == 2
MaxPending == 2

TitleMax == 200
MessageMax == 1000
Attempts == 3
Concurrency == 5
DefaultLimit == 50
LimitMin == 1
LimitMax == 100

\* ------------------------------------------------------------------------
\* Universes: rows of the directory tables, in the order the database
\* returns them
\* ------------------------------------------------------------------------
UserOrder == <<"u1", "u2", "u3", "u4", "u5">>
UserSet == {UserOrder[i] : i \in DOMAIN UserOrder}
GhostUser == "u9"
ClassSet == {"c1", "c2"}
StudentOrder == <<"s1", "s2">>
StudentSet == {StudentOrder[i] : i \in DOMAIN StudentOrder}
TeacherClassOrder == <<<<"u2", "c1">>, <<"u2", "c2">>, <<"u3", "c1">>>>
NoParent == "none"
RoleEnum == {"SCHOOL_ADMIN", "TEACHER", "PARENT"}
TokenSet == {"t1", "t2"}
PlatformEnum == {"IOS", "ANDROID", "WEB"}

VARIABLES
    users,          \* table users: id -> [role, isActive]
    teacherClass,   \* table teacher_classes: set of <<teacher userId, classId>>
    students,       \* table students: id -> [classId, isActive, parent]
    deviceTokens,   \* table device_tokens: its rows, in insertion order
    now,            \* the clock read by `new Date()`
    pending,        \* registerDevice calls whose upsert has read but not written
    oneSignalCfg,   \* env.oneSignalAppId && env.oneSignalRestApiKey set
    fcmCfg,         \* env.fcmServerKey set
    redisUp,        \* the queue backend is reachable
    jobs,           \* Bull's job records, indexed by job id
    proc,           \* the worker process: running, closing, exited
    lastCall        \* the last HTTP request handled and its response

dirVars == <<users, teacherClass, students>>
devVars == <<deviceTokens, now, pending>>
envVars == <<oneSignalCfg, fcmCfg>>
vars == <<users, teacherClass, students, deviceTokens, now, pending,
          oneSignalCfg, fcmCfg, redisUp, jobs, proc, lastCall>>

\* ------------------------------------------------------------------------
\* Optional arrays of a request body
\* ------------------------------------------------------------------------
Absent == [present |-> FALSE, items |-> <<>>]
Arr(s) == [present |-> TRUE, items |-> s]
Range(s) == {s[i] : i \in DOMAIN s}
\* `val.x && val.x.length > 0`
NonEmpty(a) == a.present /\ Len(a.items) > 0

\* ------------------------------------------------------------------------
\* resolveRecipientUserIds
\* ------------------------------------------------------------------------
\* Set.prototype.add on an insertion-ordered set
SetAddNoDedup(acc, x) == Append(acc, x)
SetAdd(acc, x) == IF \E i \in DOMAIN acc : acc[i] = x THEN acc ELSE Append(acc, x)

RECURSIVE AddAll(_, _)
AddAll(acc, rows) ==
    IF rows = <<>> THEN acc ELSE AddAll(SetAdd(acc, Head(rows)), Tail(rows))

\* prisma.user.findMany({ where: { id: { in: ids } }, select: { id } })
findUsersByIdsNoLookup(ids) == ids
findUsersByIds(ids) == SelectSeq(UserOrder, LAMBDA u : u \in Range(ids))

\* prisma.user.findMany({ where: { role: { name: { in: roles } } } })
findUsersByRoles(roles) ==
    SelectSeq(UserOrder, LAMBDA u : users[u].role \in Range(roles))

\* prisma.teacherClass.findMany({ where: { classId: { in } } }) -> teacher.userId
findTeachersByClasses(classIds) ==
    LET rows == SelectSeq(TeacherClassOrder,
                    LAMBDA r : r \in teacherClass /\ r[2] \in Range(classIds))
    IN  [i \in DOMAIN rows |-> rows[i][1]]

\* prisma.student.findMany({ where: { classId: { in } } }) -> parent?.userId,
\* rows without a parent are skipped by `if (p.parent)`
findParentsByClasses(classIds) ==
    LET rows == SelectSeq(StudentOrder,
                    LAMBDA s : students[s].classId \in Range(classIds))
        withParent == SelectSeq(rows, LAMBDA s : students[s].parent # NoParent)
    IN  [i \in DOMAIN withParent |-> students[withParent[i]].parent]

resolveRecipientUserIds(recipients) ==
    LET s0 == <<>>
        s1 == IF NonEmpty(recipients.userIds)
              THEN AddAll(s0, findUsersByIds(recipients.userIds.items))
              ELSE s0
        s2 == IF NonEmpty(recipients.roles)
              THEN AddAll(s1, findUsersByRoles(recipients.roles.items))
              ELSE s1
        s3 == IF NonEmpty(recipients.classIds)
              THEN AddAll(AddAll(s2, findTeachersByClasses(recipients.classIds.items)),
                          findParentsByClasses(recipients.classIds.items))
              ELSE s2
    IN  s3

\* number of directory queries resolveRecipientUserIds issues
resolveQueries(recipients) ==
    (IF NonEmpty(recipients.userIds) THEN 1 ELSE 0)
    + (IF NonEmpty(recipients.roles) THEN 1 ELSE 0)
    + (IF NonEmpty(recipients.classIds) THEN 2 ELSE 0)

\* ------------------------------------------------------------------------
\* Request validation and authorization
\* ------------------------------------------------------------------------
\* authorize(...allowedRoles): the caller's role must be one of allowedRoles
authorizeAny(allowedRoles, userRole) == TRUE
authorize(allowedRoles, userRole) == userRole \in allowedRoles

\* the .refine() of sendNotificationSchema.body.recipients
recipientsRefineNone(val) == TRUE
recipientsRefine(val) ==
    NonEmpty(val.userIds) \/ NonEmpty(val.roles) \/ NonEmpty(val.classIds)

\* sendNotificationSchema.safeParse(req).success; title and message are
\* modelled by their lengths
sendNotificationSchema(body) ==
    /\ body.title >= 1 /\ body.title <= TitleMax
    /\ body.message >= 1 /\ body.message <= MessageMax
    /\ body.recipients.roles.present
          => Range(body.recipients.roles.items) \subseteq RoleEnum
    /\ recipientsRefine(body.recipients)

\* ------------------------------------------------------------------------
\* Errors raised by notificationQueue.add, and their classification
\* ------------------------------------------------------------------------
\* error messages are sequences of words
Lower(w) ==
    CASE w = "ECONNREFUSED" -> "econnrefused"
      [] w = "Redis" -> "redis"
      [] w = "Connection" -> "connection"
      [] OTHER -> w

\* String.prototype.includes on one lower-cased word
HasSubstr(w, part) == w = part \/ <<w, part>> \in {<<"connection", "connect">>}
Includes(words, part) == \E i \in DOMAIN words : HasSubstr(Lower(words[i]), part)

\* String(error) for an Error object: `${name}: ${message}`
ErrString(error) ==
    IF error.message = <<>> THEN <<error.name>> ELSE <<error.name>> \o error.message
\* error?.message || String(error)
ErrMessageOrString(error) ==
    IF error.message # <<>> THEN error.message ELSE ErrString(error)

isRedisError(error) ==
    LET errorMessage == ErrMessageOrString(error)
        errorString == ErrString(error)
    IN  \/ Includes(errorMessage, "econnrefused")
        \/ Includes(errorMessage, "redis")
        \/ Includes(errorMessage, "connection")
        \/ Includes(errorMessage, "connect")
        \/ error.code \in {"ECONNREFUSED", "ENOTFOUND", "ETIMEDOUT", "ECONNRESET"}
        \/ error.name = "Error"
        \/ Includes(errorString, "redis")
        \/ Includes(errorString, "connection")

AddOk == [ok |-> TRUE, connectivity |-> FALSE, name |-> "", code |-> "", message |-> <<>>]
ConnRefused ==
    [ok |-> FALSE, connectivity |-> TRUE, name |-> "Error", code |-> "ECONNREFUSED",
     message |-> <<"connect", "ECONNREFUSED", "127.0.0.1:6379">>]
MaxRetriesError ==
    [ok |-> FALSE, connectivity |-> TRUE, name |-> "MaxRetriesPerRequestError", code |-> "",
     message |-> <<"Reached", "the", "max", "retries", "per", "request", "limit">>]
ReplyError ==
    [ok |-> FALSE, connectivity |-> FALSE, name |-> "ReplyError", code |-> "",
     message |-> <<>>]
AddErrors == {ConnRefused, MaxRetriesError, ReplyError}
AddOutcomes == {AddOk} \cup AddErrors

\* ------------------------------------------------------------------------
\* enqueueNotification
\* ------------------------------------------------------------------------
NoResult == [queued |-> FALSE, recipientCount |-> 0, warning |-> <<>>]
Returned(result) == [threw |-> "", result |-> result]
Threw(name) == [threw |-> name, result |-> NoResult]

\* the catch block around notificationQueue.add
enqueueCatchRethrow(error, recipientUserIds) ==
    IF isRedisError(error)
    THEN Returned([queued |-> FALSE, recipientCount |-> Len(recipientUserIds),
                   warning |-> <<"Notification", "queue", "unavailable.">>])
    ELSE Threw(error.name)
enqueueCatch(error, recipientUserIds) ==
    IF isRedisError(error)
    THEN Returned([queued |-> FALSE, recipientCount |-> Len(recipientUserIds),
                   warning |-> <<"Notification", "queue", "unavailable.">>])
    ELSE Returned([queued |-> FALSE, recipientCount |-> Len(recipientUserIds),
                   warning |-> <<"Notification", "queue", "error:">>
                               \o ErrMessageOrString(error)
                               \o <<"Please", "check", "Redis", "connection.">>])

\* `if (recipientUserIds.length === 0) throw new NotFoundError(...)`
noRecipientsNever(recipientUserIds) == FALSE
noRecipients(recipientUserIds) == Len(recipientUserIds) = 0

\* the return after the try block: notificationQueue.add resolved
enqueueReturnNotQueued(recipientUserIds) ==
    Returned([queued |-> FALSE, recipientCount |-> Len(recipientUserIds),
              warning |-> <<>>])
enqueueReturn(recipientUserIds) ==
    Returned([queued |-> TRUE, recipientCount |-> Len(recipientUserIds),
              warning |-> <<>>])

NotificationJobData(input, recipientUserIds, initiatedBy) ==
    [title |-> input.title, message |-> input.message, data |-> input.data,
     recipientUserIds |-> recipientUserIds, initiatedBy |-> initiatedBy]

\* outcome of enqueueNotification(input, initiatedBy) when notificationQueue.add
\* settles as `add`: what the caller sees, and whether a job was added
enqueueNotification(input, initiatedBy, add) ==
    LET recipientUserIds == resolveRecipientUserIds(input.recipients)
    IN  IF noRecipients(recipientUserIds)
        THEN [out |-> Threw("NotFoundError"), added |-> FALSE, addCalled |-> FALSE,
              recipientUserIds |-> recipientUserIds]
        ELSE IF add.ok
        THEN [out |-> enqueueReturn(recipientUserIds),
              added |-> TRUE, addCalled |-> TRUE,
              recipientUserIds |-> recipientUserIds]
        ELSE [out |-> enqueueCatch(add, recipientUserIds), added |-> FALSE,
              addCalled |-> TRUE, recipientUserIds |-> recipientUserIds]

\* ------------------------------------------------------------------------
\* POST /notification/send: authenticate, authorize('SCHOOL_ADMIN'),
\* sendNotificationController, errorHandler
\* ------------------------------------------------------------------------
NoBody ==
    [title |-> 0, message |-> 0, data |-> "absent",
     recipients |-> [userIds |-> Absent, roles |-> Absent, classIds |-> Absent]]

NoDevice == [userId |-> "", deviceToken |-> "", platform |-> ""]

NoQuery == [limit |-> Absent]

NoCall ==
    [op |-> "none", caller |-> "", body |-> NoBody, device |-> NoDevice,
     query |-> NoQuery, items |-> <<>>, reached |-> "", error |-> "",
     result |-> NoResult, recipientUserIds |-> <<>>, dbQueries |-> 0,
     addCalled |-> FALSE, add |-> AddOk, jobId |-> 0]

\* the record notificationQueue.add stores: Bull puts it on the wait list
\* `delivered`: the requests each gateway has accepted for the job so far
NewJobTaken(data) ==
    [data |-> data, state |-> "active", attemptsMade |-> 0, failedReason |-> "",
     finishedOn |-> 0, stored |-> TRUE, status |-> "", returnResults |-> <<>>,
     pc |-> "lookup", activeTokens |-> <<>>, results |-> <<>>, calls |-> <<>>,
     delivered |-> [onesignal |-> 0, fcm |-> 0]]
NewJob(data) ==
    [data |-> data, state |-> "waiting", attemptsMade |-> 0, failedReason |-> "",
     finishedOn |-> 0, stored |-> TRUE, status |-> "", returnResults |-> <<>>,
     pc |-> "", activeTokens |-> <<>>, results |-> <<>>, calls |-> <<>>,
     delivered |-> [onesignal |-> 0, fcm |-> 0]]

SendNotification(caller, body, add) ==
    /\ add.ok => redisUp
    /\ add.connectivity => ~redisUp
    /\ IF ~authorize({"SCHOOL_ADMIN"}, users[caller].role)
       THEN /\ lastCall' = [NoCall EXCEPT !.op = "send", !.caller = caller,
                               !.body = body, !.reached = "authorize",
                               !.error = "ForbiddenError"]
            /\ UNCHANGED jobs
       ELSE IF ~sendNotificationSchema(body)
       THEN /\ lastCall' = [NoCall EXCEPT !.op = "send", !.caller = caller,
                               !.body = body, !.reached = "controller",
                               !.error = "ValidationError"]
            /\ UNCHANGED jobs
       ELSE LET r == enqueueNotification(body, caller, add)
            IN  /\ r.added => Len(jobs) < MaxJobs
                /\ jobs' = IF r.added
                           THEN Append(jobs, NewJob(NotificationJobData(
                                    body, r.recipientUserIds, caller)))
                           ELSE jobs
                /\ lastCall' = [NoCall EXCEPT !.op = "send", !.caller = caller,
                                   !.body = body, !.reached = "service",
                                   !.error = r.out.threw, !.result = r.out.result,
                                   !.recipientUserIds = r.recipientUserIds,
                                   !.dbQueries = resolveQueries(body.recipients),
                                   !.addCalled = r.addCalled,
                                   !.add = IF r.addCalled THEN add ELSE AddOk,
                                   !.jobId = IF r.added THEN Len(jobs) + 1 ELSE 0]
    /\ UNCHANGED <<dirVars, devVars, envVars, proc, redisUp>>

\* the queue backend becomes unreachable / reachable again
RedisDown ==
    /\ redisUp
    /\ redisUp' = FALSE
    /\ UNCHANGED <<dirVars, devVars, envVars, proc, jobs, lastCall>>

RedisUp ==
    /\ ~redisUp
    /\ redisUp' = TRUE
    /\ UNCHANGED <<dirVars, devVars, envVars, proc, jobs, lastCall>>

\* ------------------------------------------------------------------------
\* POST /notification/device: authenticate, registerDeviceController,
\* registerDevice, errorHandler
\* ------------------------------------------------------------------------
Row(userId, token, platform, isActive, lastUsedAt) ==
    [userId |-> userId, token |-> token, platform |-> platform,
     isActive |-> isActive, lastUsedAt |-> lastUsedAt]

\* z.string().uuid(): the ids of the model are well-formed, "me" is not
isUuid(id) == id \in UserSet \cup {GhostUser}

registerDeviceSchema(body) ==
    /\ isUuid(body.userId)
    /\ body.deviceToken # ""
    /\ body.platform \in PlatformEnum

\* `input.userId !== requesterUserId`
requesterMismatchNever(input, requesterUserId) == FALSE
requesterMismatch(input, requesterUserId) == input.userId # requesterUserId

\* lastUsedAt of the stored rows of a pair
StoredAt(userId, token) ==
    {deviceTokens[i].lastUsedAt :
        i \in {k \in DOMAIN deviceTokens : /\ deviceTokens[k].userId = userId
                                            /\ deviceTokens[k].token = token}}

HasRow(userId, token) ==
    \E i \in DOMAIN deviceTokens :
        deviceTokens[i].userId = userId /\ deviceTokens[i].token = token

\* the unique index userId_token rejects an INSERT of a pair that is stored
uniqueViolationNone(userId, token) == FALSE
uniqueViolation(userId, token) == HasRow(userId, token)

\* the upsert's UPDATE ... WHERE userId_token
upsertUpdate(c) ==
    [i \in DOMAIN deviceTokens |->
        IF deviceTokens[i].userId = c.userId /\ deviceTokens[i].token = c.token
        THEN [deviceTokens[i] EXCEPT !.platform = c.platform, !.isActive = TRUE,
                                     !.lastUsedAt = c.date]
        ELSE deviceTokens[i]]

\* the request up to the upsert's SELECT: validation, the requester check,
\* `new Date()` in the upsert's arguments, and the lookup of the pair
RegisterDevice(requester, body) ==
    /\ IF ~registerDeviceSchema(body)
       THEN /\ lastCall' = [NoCall EXCEPT !.op = "register", !.caller = requester,
                               !.device = body, !.reached = "controller",
                               !.error = "ValidationError"]
            /\ UNCHANGED devVars
       ELSE IF requesterMismatch(body, requester)
       THEN /\ lastCall' = [NoCall EXCEPT !.op = "register", !.caller = requester,
                               !.device = body, !.reached = "service",
                               !.error = "ConflictError"]
            /\ UNCHANGED devVars
       ELSE /\ now < MaxClock
            /\ Cardinality(pending) < MaxPending
            /\ now' = now + 1
            /\ pending' = pending \cup
                  {[requester |-> requester, userId |-> body.userId,
                    token |-> body.deviceToken, platform |-> body.platform,
                    date |-> now', found |-> HasRow(body.userId, body.deviceToken),
                    seen |-> StoredAt(body.userId, body.deviceToken)]}
            /\ UNCHANGED <<deviceTokens, lastCall>>
    /\ UNCHANGED <<dirVars, envVars, proc, redisUp, jobs>>

\* the upsert's write and the response: UPDATE when the SELECT found the
\* pair, INSERT otherwise. `create` sets no lastUsedAt: the column default is
\* either NULL (0) or the time of the insert.
UpsertWrite(c) ==
    /\ c \in pending
    /\ pending' = pending \ {c}
    /\ LET device == [userId |-> c.userId, deviceToken |-> c.token,
                      platform |-> c.platform]
           answered(error) ==
               [NoCall EXCEPT !.op = "register", !.caller = c.requester,
                              !.device = device, !.reached = "service",
                              !.error = error]
       IN  IF c.found
           THEN /\ deviceTokens' = upsertUpdate(c)
                /\ lastCall' = answered("")
           ELSE IF uniqueViolation(c.userId, c.token)
           THEN /\ UNCHANGED deviceTokens
                /\ lastCall' = answered("PrismaClientKnownRequestError")
           ELSE /\ \E lastUsedAt \in {0, now} :
                     deviceTokens' = Append(deviceTokens,
                         Row(c.userId, c.token, c.platform, TRUE, lastUsedAt))
                /\ lastCall' = answered("")
    /\ UNCHANGED <<dirVars, now, envVars, proc, redisUp, jobs>>

\* ------------------------------------------------------------------------
\* Teacher module, assignTeacherToClass: the class assignments change while
\* jobs are queued
\* ------------------------------------------------------------------------
AssignTeacherToClass(teacher, classIds) ==
    LET existingClassIds == {c \in Range(classIds) : <<teacher, c>> \in teacherClass}
        newClassIds == Range(classIds) \ existingClassIds
    IN  /\ teacherClass' =
              IF \/ teacher \notin UserSet
                 \/ users[teacher].role # "TEACHER"
                 \/ ~(Range(classIds) \subseteq ClassSet)
                 \/ newClassIds = {}
              THEN teacherClass
              ELSE teacherClass \cup {<<teacher, c>> : c \in newClassIds}
        /\ UNCHANGED <<users, students, devVars, envVars, proc, redisUp, jobs, lastCall>>

\* ------------------------------------------------------------------------
\* Worker: notificationQueue.process(5, handler) and Bull's job lifecycle
\* under defaultJobOptions
\* ------------------------------------------------------------------------
\* prisma.deviceToken.findMany({ where: { userId: { in }, isActive: true } })
getDeviceTokensForUsersAnyState(userIds) ==
    SelectSeq(deviceTokens, LAMBDA row : row.userId \in Range(userIds))
getDeviceTokensForUsers(userIds) ==
    SelectSeq(deviceTokens,
              LAMBDA row : row.userId \in Range(userIds) /\ row.isActive)

NotConfigured(provider) ==
    [provider |-> provider, success |-> FALSE, reason |-> "Not configured"]
Success(provider) == [provider |-> provider, success |-> TRUE, reason |-> ""]
Failure(provider, message) ==
    [provider |-> provider, success |-> FALSE, reason |-> message]

OneSignalOutcomes == {"ok", "OneSignal request failed"}
FcmOutcomes == {"ok", "FCM send failed: 401 Unauthorized"}

\* sendViaOneSignal / sendViaFcm: the value returned, or the error raised,
\* when the gateway answers `outcome`
\* `called`: the gateway was contacted
sendViaOneSignal(outcome) ==
    IF ~oneSignalCfg
    THEN [threw |-> "", result |-> NotConfigured("onesignal"), called |-> FALSE]
    ELSE IF outcome = "ok"
    THEN [threw |-> "", result |-> Success("onesignal"), called |-> TRUE]
    ELSE [threw |-> outcome, result |-> NotConfigured("onesignal"), called |-> TRUE]

sendViaFcmUnconfiguredThrows(outcome) ==
    IF ~fcmCfg
    THEN [threw |-> "Not configured", result |-> NotConfigured("fcm"), called |-> FALSE]
    ELSE IF outcome = "ok"
    THEN [threw |-> "", result |-> Success("fcm"), called |-> TRUE]
    ELSE [threw |-> outcome, result |-> NotConfigured("fcm"), called |-> TRUE]
sendViaFcm(outcome) ==
    IF ~fcmCfg
    THEN [threw |-> "", result |-> NotConfigured("fcm"), called |-> FALSE]
    ELSE IF outcome = "ok"
    THEN [threw |-> "", result |-> Success("fcm"), called |-> TRUE]
    ELSE [threw |-> outcome, result |-> NotConfigured("fcm"), called |-> TRUE]

\* the request a provider's gateway received: who was targeted
Call(provider, tokens) == [provider |-> provider, tokens |-> tokens]

\* `activeTokens.length === 0`
noTokensNever(activeTokens) == FALSE
noTokens(activeTokens) == Len(activeTokens) = 0

ActiveJobsNone == {}
ActiveJobs == {j \in DOMAIN jobs : jobs[j].state = "active"}

\* Bull job.moveToFailed: retry while attemptsMade < opts.attempts
shouldRetryOffByOne(attemptsMade) == attemptsMade <= Attempts
shouldRetry(attemptsMade) == attemptsMade < Attempts

\* Date.now() when a job finishes: later than every earlier finish
FinishStamp ==
    1 + Cardinality({j \in DOMAIN jobs : jobs[j].finishedOn # 0})

\* handler returned `value`: removeOnComplete drops the job record
moveToCompleted(job, status, results) ==
    [job EXCEPT !.state = "completed", !.finishedOn = FinishStamp, !.stored = FALSE,
                !.status = status, !.returnResults = results,
                !.pc = "", !.activeTokens = <<>>, !.results = <<>>]

\* handler threw `message`: backoff and retry, or fail for good
\* (removeOnFail: false keeps the record)
moveToFailedNoRetry(job, message) ==
    [job EXCEPT !.state = "failed", !.attemptsMade = job.attemptsMade + 1,
                !.failedReason = message, !.finishedOn = FinishStamp,
                !.pc = "", !.activeTokens = <<>>, !.results = <<>>]
moveToFailedRemoved(job, message) ==
    LET made == job.attemptsMade + 1
    IN  IF shouldRetry(made)
        THEN [job EXCEPT !.state = "delayed", !.attemptsMade = made,
                         !.failedReason = message,
                         !.pc = "", !.activeTokens = <<>>, !.results = <<>>]
        ELSE [job EXCEPT !.state = "failed", !.attemptsMade = made,
                         !.failedReason = message, !.finishedOn = FinishStamp,
                         !.stored = FALSE,
                         !.pc = "", !.activeTokens = <<>>, !.results = <<>>]
moveToFailed(job, message) ==
    LET made == job.attemptsMade + 1
    IN  IF shouldRetry(made)
        THEN [job EXCEPT !.state = "delayed", !.attemptsMade = made,
                         !.failedReason = message,
                         !.pc = "", !.activeTokens = <<>>, !.results = <<>>]
        ELSE [job EXCEPT !.state = "failed", !.attemptsMade = made,
                         !.failedReason = message, !.finishedOn = FinishStamp,
                         !.pc = "", !.activeTokens = <<>>, !.results = <<>>]

\* `job.data.recipientUserIds`: the recipients the worker looks tokens up for
jobRecipientsResolvedAgain(job) ==
    resolveRecipientUserIds([userIds |-> Absent, roles |-> Absent,
                             classIds |-> Arr(<<"c1">>)])
jobRecipients(job) == job.data.recipientUserIds

\* a worker slot takes the next waiting job
StartJobSkipsLookup(j) ==
    /\ j \in DOMAIN jobs
    /\ jobs[j].state = "waiting"
    /\ Cardinality(ActiveJobs) < Concurrency
    /\ proc = "running"
    /\ jobs' = [jobs EXCEPT ![j].state = "active", ![j].pc = "onesignal"]
    /\ UNCHANGED <<dirVars, devVars, envVars, proc, redisUp, lastCall>>
StartJob(j) ==
    /\ j \in DOMAIN jobs
    /\ jobs[j].state = "waiting"
    /\ Cardinality(ActiveJobs) < Concurrency
    /\ proc = "running"
    /\ jobs' = [jobs EXCEPT ![j].state = "active", ![j].pc = "lookup"]
    /\ UNCHANGED <<dirVars, devVars, envVars, proc, redisUp, lastCall>>

\* handler lines 182-190: token lookup, and the no-tokens return
LookupTokens(j) ==
    /\ j \in DOMAIN jobs
    /\ jobs[j].state = "active" /\ jobs[j].pc = "lookup"
    /\ proc # "exited"
    /\ LET tokens == getDeviceTokensForUsers(jobRecipients(jobs[j]))
           activeTokens == [i \in DOMAIN tokens |-> tokens[i].token]
       IN  jobs' = IF noTokens(activeTokens)
                   THEN [jobs EXCEPT ![j] = moveToCompleted(
                                               [jobs[j] EXCEPT !.calls = <<>>],
                                               "no-tokens", <<>>)]
                   ELSE [jobs EXCEPT ![j].pc = "onesignal",
                                     ![j].activeTokens = activeTokens,
                                     ![j].results = <<>>,
                                     ![j].calls = <<>>]
    /\ UNCHANGED <<dirVars, devVars, envVars, proc, redisUp, lastCall>>

\* handler lines 194-200: the OneSignal attempt; a raise is caught and recorded
SendOneSignal(j, outcome) ==
    /\ j \in DOMAIN jobs
    /\ jobs[j].state = "active" /\ jobs[j].pc = "onesignal"
    /\ proc # "exited"
    /\ LET r == sendViaOneSignal(outcome)
           pushed == IF r.threw = "" THEN r.result ELSE Failure("onesignal", r.threw)
           called == IF r.called
                     THEN Append(jobs[j].calls, Call("onesignal", jobs[j].activeTokens))
                     ELSE jobs[j].calls
       IN  jobs' = [jobs EXCEPT ![j].pc = "fcm",
                                ![j].results = Append(@, pushed),
                                ![j].calls = called,
                                ![j].delivered.onesignal =
                                    IF pushed.success THEN @ + 1 ELSE @]
    /\ UNCHANGED <<dirVars, devVars, envVars, proc, redisUp, lastCall>>

\* handler lines 202-211: the FCM attempt; a raise is recorded and rethrown
SendFcm(j, outcome) ==
    /\ j \in DOMAIN jobs
    /\ jobs[j].state = "active" /\ jobs[j].pc = "fcm"
    /\ proc # "exited"
    /\ LET r == sendViaFcm(outcome)
           called == IF r.called
                     THEN Append(jobs[j].calls, Call("fcm", jobs[j].activeTokens))
                     ELSE jobs[j].calls
           job == [jobs[j] EXCEPT !.calls = called,
                                  !.delivered.fcm =
                                      IF r.threw = "" /\ r.result.success
                                      THEN @ + 1 ELSE @]
       IN  jobs' = IF r.threw = ""
                   THEN [jobs EXCEPT ![j] = moveToCompleted(job, "sent",
                                                Append(job.results, r.result))]
                   ELSE [jobs EXCEPT ![j] = moveToFailed(job, r.threw)]
    /\ UNCHANGED <<dirVars, devVars, envVars, proc, redisUp, lastCall>>

\* the backoff delay of a failed attempt has elapsed
PromoteDelayedNever(j) ==
    /\ j \in DOMAIN jobs
    /\ jobs[j].state = "delayed"
    /\ proc = "running"
    /\ jobs' = jobs
    /\ UNCHANGED <<dirVars, devVars, envVars, proc, redisUp, lastCall>>
PromoteDelayed(j) ==
    /\ j \in DOMAIN jobs
    /\ jobs[j].state = "delayed"
    /\ proc = "running"
    /\ jobs' = [jobs EXCEPT ![j].state = "waiting"]
    /\ UNCHANGED <<dirVars, devVars, envVars, proc, redisUp, lastCall>>

\* ------------------------------------------------------------------------
\* Shutdown: process.on('SIGTERM' / 'SIGINT'), Bull's queue.close() and
\* process.exit(0)
\* ------------------------------------------------------------------------
Signals == {"SIGTERM", "SIGINT"}

\* the handler calls notificationQueue.close(): from then on the queue takes
\* no job and its delay timer is cleared; a second signal awaits the same
\* close
Signal(sig) ==
    /\ sig \in Signals
    /\ proc \in {"running", "closing"}
    /\ proc' = "closing"
    /\ UNCHANGED <<dirVars, devVars, oneSignalCfg, fcmCfg, redisUp, jobs, lastCall>>

\* close() resolves once the jobs being processed have finished; only then
\* does the handler reach process.exit(0)
closeResolvedEarly == TRUE
closeResolved == ActiveJobs = {}

Exit ==
    /\ proc = "closing"
    /\ closeResolved
    /\ proc' = "exited"
    /\ UNCHANGED <<dirVars, devVars, oneSignalCfg, fcmCfg, redisUp, jobs, lastCall>>

\* ------------------------------------------------------------------------
\* GET /notification/list: authenticate, listNotificationsController,
\* listNotifications, errorHandler
\* ------------------------------------------------------------------------
Digits == <<"0", "1", "2", "3", "4", "5", "6", "7", "8", "9">>
IsDigit(c) == \E i \in DOMAIN Digits : Digits[i] = c
DigitVal(c) == (CHOOSE i \in DOMAIN Digits : Digits[i] = c) - 1

\* the value of the longest prefix of decimal digits of s[i..]
RECURSIVE LeadingDigits(_, _, _)
LeadingDigits(s, i, acc) ==
    IF i > Len(s) \/ ~IsDigit(s[i]) THEN acc
    ELSE LeadingDigits(s, i + 1, 10 * acc + DigitVal(s[i]))

\* parseInt(val, 10) of a string given as its characters: an optional sign,
\* then digits up to the first other character; NaN without a digit
parseInt(s) ==
    LET signed == Len(s) > 0 /\ s[1] \in {"-", "+"}
        first == IF signed THEN 2 ELSE 1
        magnitude == LeadingDigits(s, first, 0)
    IN  IF first > Len(s) \/ ~IsDigit(s[first])
        THEN [nan |-> TRUE, n |-> 0]
        ELSE [nan |-> FALSE,
              n |-> IF signed /\ s[1] = "-" THEN 0 - magnitude ELSE magnitude]

\* z.number().min(1).max(100)
limitInRangeAny(n) == TRUE
limitInRange(n) == n >= LimitMin /\ n <= LimitMax

\* query.limit: string -> parseInt -> number in range, optional
listNotificationsSchema(query) ==
    query.limit.present =>
        LET parsed == parseInt(query.limit.items)
        IN  ~parsed.nan /\ limitInRange(parsed.n)

\* `query.limit || 50` on the parsed query
queryLimit(query) ==
    LET n == IF query.limit.present THEN parseInt(query.limit.items).n ELSE 0
    IN  IF n # 0 THEN n ELSE DefaultLimit

\* the ids of a finished set, most recently finished first (zrevrange):
\* the finish stamps t, t-1, ..., 1 in turn
RECURSIVE ByFinishDesc(_, _)
ByFinishDesc(ids, t) ==
    IF t = 0 THEN <<>>
    ELSE LET hit == {j \in ids : jobs[j].finishedOn = t}
         IN  (IF hit = {} THEN <<>> ELSE <<CHOOSE j \in hit : TRUE>>)
             \o ByFinishDesc(ids, t - 1)

Take(s, n) == SubSeq(s, 1, IF Len(s) < n THEN Len(s) ELSE n)

\* Bull getJobs(types, 0, end, false): the range is cut from each type's set
\* and the cuts are concatenated
getJobs(types, end) ==
    LET ofType(type) ==
            ByFinishDesc({j \in DOMAIN jobs : jobs[j].stored /\ jobs[j].state = type},
                         Len(jobs))
        cut(type) == Take(ofType(type), end + 1)
        RECURSIVE concat(_)
        concat(i) == IF i > Len(types) THEN <<>> ELSE cut(types[i]) \o concat(i + 1)
    IN  concat(1)

Item(j) ==
    [id |-> j,
     state |-> IF jobs[j].finishedOn # 0 THEN "completed" ELSE "failed",
     failedReason |-> jobs[j].failedReason,
     title |-> jobs[j].data.title,
     message |-> jobs[j].data.message,
     recipientUserIds |-> jobs[j].data.recipientUserIds,
     initiatedBy |-> jobs[j].data.initiatedBy,
     finishedOn |-> jobs[j].finishedOn]

\* `requesterRole === 'SCHOOL_ADMIN'`
requesterIsAdminAlways(requesterRole) == TRUE
requesterIsAdmin(requesterRole) == requesterRole = "SCHOOL_ADMIN"

listNotifications(requesterRole, requesterUserId, query) ==
    LET limit == queryLimit(query)
        found == getJobs(<<"completed", "failed">>, limit - 1)
        items == [i \in DOMAIN found |-> Item(found[i])]
    IN  IF requesterIsAdmin(requesterRole) THEN items
        ELSE SelectSeq(items,
                       LAMBDA item : requesterUserId \in Range(item.recipientUserIds))

ListNotifications(caller, query) ==
    /\ lastCall' =
          IF ~listNotificationsSchema(query)
          THEN [NoCall EXCEPT !.op = "list", !.caller = caller, !.query = query,
                              !.reached = "controller", !.error = "ValidationError"]
          ELSE IF ~redisUp
          THEN [NoCall EXCEPT !.op = "list", !.caller = caller, !.query = query,
                              !.reached = "service",
                              !.error = "MaxRetriesPerRequestError"]
          ELSE [NoCall EXCEPT !.op = "list", !.caller = caller, !.query = query,
                              !.reached = "service",
                              !.items = listNotifications(users[caller].role,
                                                          caller, query)]
    /\ UNCHANGED <<dirVars, devVars, envVars, proc, redisUp, jobs>>

\* ------------------------------------------------------------------------
\* Initial states
\* ------------------------------------------------------------------------
UserRoles ==
    [u \in UserSet |->
        CASE u = "u1" -> "SCHOOL_ADMIN"
          [] u \in {"u2", "u3"} -> "TEACHER"
          [] OTHER -> "PARENT"]

UsersWith(inactive) ==
    [u \in UserSet |-> [role |-> UserRoles[u], isActive |-> u \notin inactive]]

\* u4 has an active device and a deactivated one, u5 a deactivated one, the
\* staff none
InitDeviceTokens ==
    << Row("u4", "t1", "ANDROID", TRUE, 0),
       Row("u4", "t2", "WEB", FALSE, 0),
       Row("u5", "t2", "IOS", FALSE, 0) >>

Recipients(userIds, roles, classIds) ==
    [userIds |-> userIds, roles |-> roles, classIds |-> classIds]
Body(title, recipients) ==
    [title |-> title, message |-> 1, data |-> "absent", recipients |-> recipients]

\* requests of the dispatch specification
Bodies ==
    { Body(1, Recipients(Absent, Absent, Arr(<<"c1">>))),
      Body(1, Recipients(Absent, Arr(<<"TEACHER">>), Absent)),
      Body(1, Recipients(Absent, Absent, Absent)),
      Body(1, Recipients(Arr(<<>>), Arr(<<>>), Arr(<<>>))),
      Body(1, Recipients(Arr(<<GhostUser>>), Absent, Absent)),
      Body(0, Recipients(Absent, Absent, Arr(<<"c1">>))),
      Body(TitleMax + 1, Recipients(Absent, Absent, Arr(<<"c1">>))) }
\* the administrator sends each of them, a teacher tries the first
Requests ==
    {<<"u1", body>> : body \in Bodies}
    \cup {<<"u2", Body(1, Recipients(Absent, Absent, Arr(<<"c1">>)))>>}

Init ==
    /\ users = UsersWith({"u3", "u5"})
    /\ teacherClass = {<<"u2", "c1">>, <<"u3", "c1">>}
    /\ students = [s \in StudentSet |->
                     [classId |-> "c1", isActive |-> s = "s1", parent |-> "u4"]]
    /\ deviceTokens = InitDeviceTokens
    /\ now = 0
    /\ pending = {}
    /\ oneSignalCfg \in BOOLEAN
    /\ fcmCfg \in BOOLEAN
    /\ redisUp \in BOOLEAN
    /\ jobs = <<>>
    /\ proc = "running"
    /\ lastCall = NoCall

Next ==
    \/ \E req \in Requests, add \in AddOutcomes :
          SendNotification(req[1], req[2], add)
    \/ RedisDown
    \/ RedisUp
    \/ \E j \in 1..MaxJobs : StartJob(j)
    \/ \E j \in 1..MaxJobs : LookupTokens(j)
    \/ \E j \in 1..MaxJobs, outcome \in OneSignalOutcomes : SendOneSignal(j, outcome)
    \/ \E j \in 1..MaxJobs, outcome \in FcmOutcomes : SendFcm(j, outcome)
    \/ \E j \in 1..MaxJobs : PromoteDelayed(j)

Spec == Init /\ [][Next]_vars

\* ------------------------------------------------------------------------
\* Recipient resolution over all directories and filters, with the queue
\* backend unreachable
\* ------------------------------------------------------------------------
UserIdArrays == {Absent, Arr(<<>>), Arr(<<GhostUser>>), Arr(<<"u4", GhostUser, "u4">>)}
RoleArrays == {Absent, Arr(<<"PARENT">>), Arr(<<"TEACHER", "PARENT">>)}
ClassIdArrays == {Absent, Arr(<<"c1">>), Arr(<<"c1", "c2">>)}
ResolveBodies ==
    {Body(1, Recipients(u, r, c)) : u \in UserIdArrays, r \in RoleArrays, c \in ClassIdArrays}

InitResolve ==
    /\ users \in {UsersWith(inactive) : inactive \in {{}, {"u2", "u4"}}}
    /\ teacherClass \in {{<<"u2", "c2">>} \cup t : t \in SUBSET {<<"u2", "c1">>, <<"u3", "c1">>}}
    /\ \E s1 \in [classId : {"c1"}, isActive : BOOLEAN, parent : {"u4", NoParent}],
          s2 \in [classId : ClassSet, isActive : {TRUE}, parent : {"u4", "u5"}] :
          students = [s \in StudentSet |-> IF s = "s1" THEN s1 ELSE s2]
    /\ deviceTokens = InitDeviceTokens
    /\ now = 0
    /\ pending = {}
    /\ oneSignalCfg = FALSE
    /\ fcmCfg = FALSE
    /\ redisUp = FALSE
    /\ jobs = <<>>
    /\ proc = "running"
    /\ lastCall = NoCall

NextResolve ==
    \E body \in ResolveBodies : SendNotification("u1", body, ConnRefused)

SpecResolve == InitResolve /\ [][NextResolve]_vars

\* ------------------------------------------------------------------------
\* Device registration: overlapping calls of two guardians
\* ------------------------------------------------------------------------
Device(userId, deviceToken, platform) ==
    [userId |-> userId, deviceToken |-> deviceToken, platform |-> platform]

DeviceRequests ==
    {<<u, Device(u, t, p)>> : u \in {"u4", "u5"}, t \in TokenSet, p \in {"IOS", "ANDROID"}}
    \cup {<<"u5", Device("u4", "t1", "IOS")>>, <<"u5", Device("u4", "t9", "IOS")>>,
          <<"u4", Device("u5", "t2", "ANDROID")>>, <<"u4", Device("u4", "", "IOS")>>,
          <<"u4", Device("me", "t1", "IOS")>>, <<"u4", Device("u4", "t1", "TV")>>}

InitDevice ==
    /\ users = UsersWith({})
    /\ teacherClass = {}
    /\ students = [s \in StudentSet |->
                     [classId |-> "c1", isActive |-> TRUE, parent |-> "u4"]]
    /\ deviceTokens = InitDeviceTokens
    /\ now = 0
    /\ pending = {}
    /\ oneSignalCfg = FALSE
    /\ fcmCfg = FALSE
    /\ redisUp = FALSE
    /\ jobs = <<>>
    /\ proc = "running"
    /\ lastCall = NoCall

NextDevice ==
    \/ \E req \in DeviceRequests : RegisterDevice(req[1], req[2])
    \/ \E c \in pending : UpsertWrite(c)

SpecDevice == InitDevice /\ [][NextDevice]_vars

\* ------------------------------------------------------------------------
\* Delivery while the directory and the device tokens change: both providers
\* configured, the queue backend reachable, the teacher u3 holds a device;
\* OneSignal accepts every request, FCM may refuse
\* ------------------------------------------------------------------------
ClassBody == Body(1, Recipients(Absent, Absent, Arr(<<"c1">>)))

DeliveryRegistrations == {<<"u4", Device("u4", "t2", "ANDROID")>>}

AssignRequests == {<<"u3", <<"c1">>>>}

InitDelivery ==
    /\ users = UsersWith({})
    /\ teacherClass = {<<"u2", "c1">>}
    /\ students = [s \in StudentSet |->
                     [classId |-> "c1", isActive |-> s = "s1", parent |-> "u4"]]
    /\ deviceTokens = Append(InitDeviceTokens, Row("u3", "t3", "WEB", TRUE, 0))
    /\ now = 0
    /\ pending = {}
    /\ oneSignalCfg = TRUE
    /\ fcmCfg = TRUE
    /\ redisUp = TRUE
    /\ jobs = <<>>
    /\ proc = "running"
    /\ lastCall = NoCall

NextDelivery ==
    \/ SendNotification("u1", ClassBody, AddOk)
    \/ \E req \in AssignRequests : AssignTeacherToClass(req[1], req[2])
    \/ \E req \in DeliveryRegistrations : RegisterDevice(req[1], req[2])
    \/ \E c \in pending : UpsertWrite(c)
    \/ \E j \in 1..MaxJobs : StartJob(j)
    \/ \E j \in 1..MaxJobs : LookupTokens(j)
    \/ \E j \in 1..MaxJobs : SendOneSignal(j, "ok")
    \/ \E j \in 1..MaxJobs, outcome \in FcmOutcomes : SendFcm(j, outcome)
    \/ \E j \in 1..MaxJobs : PromoteDelayed(j)

SpecDelivery == InitDelivery /\ [][NextDelivery]_vars

\* ------------------------------------------------------------------------
\* Listing the queue history: the queue holds jobs of earlier runs that
\* failed for good (FCM rejected the server key three times), and one job
\* that is still waiting
\* ------------------------------------------------------------------------
HistoryRecipients == << <<"u2", "u4">>, <<"u4">>, <<"u2", "u3">> >>

\* the k-th job of the history, as its three failed attempts left it
FailedJob(k) ==
    [NewJob([title |-> 1, message |-> 1, data |-> "absent",
             recipientUserIds |-> HistoryRecipients[(k % 3) + 1],
             initiatedBy |-> "u1"])
       EXCEPT !.state = "failed", !.attemptsMade = Attempts,
              !.failedReason = "FCM send failed: 401 Unauthorized",
              !.finishedOn = k]

WaitingJob ==
    NewJob([title |-> 1, message |-> 1, data |-> "absent",
            recipientUserIds |-> <<"u2", "u4">>, initiatedBy |-> "u1"])

HistorySizes == {0, 2, 3, DefaultLimit + 1}
History(n) == [k \in 1..n |-> FailedJob(k)] \o <<WaitingJob>>

Query(chars) == [limit |-> Arr(chars)]
Queries ==
    {NoQuery, Query(<<"1">>), Query(<<"2">>), Query(<<"1", "0", "0">>),
     Query(<<"0">>), Query(<<"1", "0", "1">>), Query(<<"-", "1">>),
     Query(<<"a", "b", "c">>), Query(<<"2", ".", "5">>)}

InitList ==
    /\ users = UsersWith({})
    /\ teacherClass = {<<"u2", "c1">>}
    /\ students = [s \in StudentSet |->
                     [classId |-> "c1", isActive |-> TRUE, parent |-> "u4"]]
    /\ deviceTokens = InitDeviceTokens
    /\ now = 0
    /\ pending = {}
    /\ oneSignalCfg = FALSE
    /\ fcmCfg = TRUE
    /\ redisUp \in BOOLEAN
    /\ jobs \in {History(n) : n \in HistorySizes}
    /\ proc = "running"
    /\ lastCall = NoCall

NextList ==
    \/ \E caller \in {"u1", "u2", "u4"}, query \in Queries :
          ListNotifications(caller, query)
    \/ \E j \in DOMAIN jobs : StartJob(j)
    \/ \E j \in DOMAIN jobs : LookupTokens(j)
    \/ \E j \in DOMAIN jobs, outcome \in OneSignalOutcomes : SendOneSignal(j, outcome)
    \/ \E j \in DOMAIN jobs, outcome \in FcmOutcomes : SendFcm(j, outcome)
    \/ \E j \in DOMAIN jobs : PromoteDelayed(j)

SpecList == InitList /\ [][NextList]_vars

\* ------------------------------------------------------------------------
\* Life of a job next to listing and shutdown: both providers configured,
\* the queue backend reachable, the worker process may be signalled
\* ------------------------------------------------------------------------
InitLifecycle ==
    /\ users = UsersWith({})
    /\ teacherClass = {<<"u2", "c1">>}
    /\ students = [s \in StudentSet |->
                     [classId |-> "c1", isActive |-> s = "s1", parent |-> "u4"]]
    /\ deviceTokens = InitDeviceTokens
    /\ now = 0
    /\ pending = {}
    /\ oneSignalCfg = TRUE
    /\ fcmCfg = TRUE
    /\ redisUp = TRUE
    /\ jobs = <<>>
    /\ proc = "running"
    /\ lastCall = NoCall

\* the administrator sends to a class; a teacher and a parent try the same,
\* the parent also with a body the schema rejects
LifecycleRequests ==
    { <<"u1", ClassBody>>, <<"u2", ClassBody>>, <<"u4", ClassBody>>,
      <<"u4", Body(0, Recipients(Absent, Absent, Absent))>> }

NextLifecycle ==
    \/ \E req \in LifecycleRequests : SendNotification(req[1], req[2], AddOk)
    \/ \E caller \in {"u1", "u2"} : ListNotifications(caller, NoQuery)
    \/ \E sig \in Signals : Signal(sig)
    \/ Exit
    \/ \E j \in 1..MaxJobs : StartJob(j)
    \/ \E j \in 1..MaxJobs : LookupTokens(j)
    \/ \E j \in 1..MaxJobs, outcome \in OneSignalOutcomes : SendOneSignal(j, outcome)
    \/ \E j \in 1..MaxJobs, outcome \in FcmOutcomes : SendFcm(j, outcome)
    \/ \E j \in 1..MaxJobs : PromoteDelayed(j)

SpecLifecycle == InitLifecycle /\ [][NextLifecycle]_vars

\* ------------------------------------------------------------------------
\* The worker pool over a backlog: more jobs wait in the queue than the
\* worker has slots; the first has a recipient with a device and FCM may
\* refuse it, the others have none
\* ------------------------------------------------------------------------
BacklogJob(k) ==
    NewJob([title |-> 1, message |-> 1, data |-> "absent",
            recipientUserIds |-> IF k = 1 THEN <<"u4">> ELSE <<"u2">>,
            initiatedBy |-> "u1"])

Backlog(n) == [k \in 1..n |-> BacklogJob(k)]

BacklogSizes == {Concurrency - 1, Concurrency + 1}

InitPool ==
    /\ users = UsersWith({})
    /\ teacherClass = {<<"u2", "c1">>}
    /\ students = [s \in StudentSet |->
                     [classId |-> "c1", isActive |-> s = "s1", parent |-> "u4"]]
    /\ deviceTokens = InitDeviceTokens
    /\ now = 0
    /\ pending = {}
    /\ oneSignalCfg = FALSE
    /\ fcmCfg = TRUE
    /\ redisUp = TRUE
    /\ \E n \in BacklogSizes : jobs = Backlog(n)
    /\ proc = "running"
    /\ lastCall = NoCall

NextPool ==
    \/ \E j \in DOMAIN jobs : StartJob(j)
    \/ \E j \in DOMAIN jobs : LookupTokens(j)
    \/ \E j \in DOMAIN jobs, outcome \in OneSignalOutcomes : SendOneSignal(j, outcome)
    \/ \E j \in DOMAIN jobs, outcome \in FcmOutcomes : SendFcm(j, outcome)
    \/ \E j \in DOMAIN jobs : PromoteDelayed(j)

SpecPool == InitPool /\ [][NextPool]_vars

\* ------------------------------------------------------------------------
\* A worker that keeps running: no signal arrives, a free slot takes a
\* waiting job, every lookup and provider call settles, every backoff timer
\* fires
\* ------------------------------------------------------------------------
InitLive ==
    /\ users = UsersWith({})
    /\ teacherClass = {<<"u2", "c1">>}
    /\ students = [s \in StudentSet |->
                     [classId |-> "c1", isActive |-> s = "s1", parent |-> "u4"]]
    /\ deviceTokens = InitDeviceTokens
    /\ now = 0
    /\ pending = {}
    /\ oneSignalCfg \in BOOLEAN
    /\ fcmCfg \in BOOLEAN
    /\ redisUp = TRUE
    /\ jobs = <<>>
    /\ proc = "running"
    /\ lastCall = NoCall

LiveRequests ==
    { <<"u1", ClassBody>>,
      <<"u1", Body(1, Recipients(Absent, Arr(<<"TEACHER">>), Absent))>>,
      <<"u1", Body(0, Recipients(Absent, Absent, Absent))>>,
      <<"u2", ClassBody>> }

NextLive ==
    \/ \E req \in LiveRequests : SendNotification(req[1], req[2], AddOk)
    \/ \E j \in 1..MaxJobs : StartJob(j)
    \/ \E j \in 1..MaxJobs : LookupTokens(j)
    \/ \E j \in 1..MaxJobs, outcome \in OneSignalOutcomes : SendOneSignal(j, outcome)
    \/ \E j \in 1..MaxJobs, outcome \in FcmOutcomes : SendFcm(j, outcome)
    \/ \E j \in 1..MaxJobs : PromoteDelayed(j)

WorkerFairness ==
    \A j \in 1..MaxJobs :
        /\ WF_vars(StartJob(j))
        /\ WF_vars(LookupTokens(j))
        /\ WF_vars(\E outcome \in OneSignalOutcomes : SendOneSignal(j, outcome))
        /\ WF_vars(\E outcome \in FcmOutcomes : SendFcm(j, outcome))
        /\ WF_vars(PromoteDelayed(j))

SpecLive == InitLive /\ [][NextLive]_vars /\ WorkerFairness

\* ------------------------------------------------------------------------
\* Properties
\* ------------------------------------------------------------------------
Resolved == lastCall.recipientUserIds
Filter == lastCall.body.recipients
Listed(a) == IF a.present THEN Range(a.items) ELSE {}
AllEmpty(recipients) ==
    \A f \in {"userIds", "roles", "classIds"} :
        ~recipients[f].present \/ recipients[f].items = <<>>
Raised(r) == ~r.success /\ r.reason # "Not configured"

\* C1: once the filter resolved to a non-empty set, enqueueNotification never
\* raises; when notificationQueue.add fails, for whatever reason, the caller
\* gets {queued: false, recipientCount: N, warning} with N the size of the
\* resolved set and a non-empty warning.
C1_DegradedEnqueue ==
    (lastCall.op = "send" /\ lastCall.reached = "service" /\ Len(Resolved) > 0)
        => /\ lastCall.error = ""
           /\ (lastCall.addCalled /\ ~lastCall.add.ok)
                => /\ ~lastCall.result.queued
                   /\ lastCall.result.recipientCount = Cardinality(Range(Resolved))
                   /\ lastCall.result.warning # <<>>
                   /\ lastCall.jobId = 0

\* an unreachable backend whose error is not recognised by the string tests
C1_Witness ==
    /\ lastCall.op = "send" /\ lastCall.addCalled
    /\ lastCall.add = MaxRetriesError /\ ~isRedisError(lastCall.add)
    /\ ~redisUp
    /\ ~lastCall.result.queued /\ lastCall.result.recipientCount = 3

\* C2 (as claimed): whenever a provider call raised in an attempt that had
\* active tokens, that attempt failed, so no job completes with status "sent"
\* while its results hold a raised provider.
C2_AnyRaiseFailsJob ==
    \A j \in DOMAIN jobs :
        (jobs[j].state = "completed" /\ jobs[j].status = "sent")
            => \A i \in DOMAIN jobs[j].returnResults : ~Raised(jobs[j].returnResults[i])

\* C3 (as claimed): a job whose only configured provider throws on every
\* attempt is processed at most Attempts times and ends failed with a
\* non-empty reason; it never completes as "sent" without one success.
C3_BoundedRetry ==
    \A j \in DOMAIN jobs :
        /\ jobs[j].attemptsMade <= Attempts
        /\ jobs[j].state = "failed"
              => jobs[j].attemptsMade = Attempts /\ jobs[j].failedReason # ""
        /\ (oneSignalCfg # fcmCfg /\ jobs[j].state = "completed" /\ jobs[j].status = "sent")
              => \E i \in DOMAIN jobs[j].returnResults : jobs[j].returnResults[i].success

\* C4: every job follows waiting -> active -> {completed | failed}. A new job
\* starts waiting; a job becomes active only from waiting; only an active job
\* completes or fails; a failed attempt is retried (Bull state "delayed", then
\* waiting again) only while attemptsMade is below Attempts, otherwise the job
\* is failed for good; completed and failed are never left.
C4_Step(old, new) ==
    CASE old.state = "waiting" -> new.state \in {"waiting", "active"} /\ new.attemptsMade < Attempts
      [] old.state = "active" ->
            \/ new.state \in {"active", "completed"}
            \/ new.state = "delayed" /\ new.attemptsMade < Attempts
            \/ new.state = "failed" /\ new.attemptsMade = Attempts
      [] old.state = "delayed" ->
            new.state \in {"delayed", "waiting"} /\ new.attemptsMade < Attempts
      [] old.state = "completed" -> new.state = "completed"
      [] old.state = "failed" -> new.state = "failed"
      [] OTHER -> FALSE

C4_StateMachine ==
    [][ /\ DOMAIN jobs \subseteq DOMAIN jobs'
        /\ \A j \in DOMAIN jobs : C4_Step(jobs[j], jobs'[j])
        /\ \A j \in DOMAIN jobs' \ DOMAIN jobs : jobs'[j].state = "waiting" ]_vars

\* a job active again in its last allowed attempt
C4_Witness ==
    \E j \in DOMAIN jobs : jobs[j].state = "active" /\ jobs[j].attemptsMade = Attempts - 1

\* C5: when the filter resolves to zero users, enqueueNotification fails with
\* a not-found error, notificationQueue.add is not called and no job exists
\* for an empty recipient list.
C5_NoRecipientsNoJob ==
    /\ (lastCall.op = "send" /\ lastCall.reached = "service" /\ Len(Resolved) = 0)
          => /\ lastCall.error = "NotFoundError"
             /\ ~lastCall.addCalled
             /\ lastCall.jobId = 0
    /\ \A j \in DOMAIN jobs : Len(jobs[j].data.recipientUserIds) > 0

\* a filter naming only an unknown id, sent while the queue could take a job
C5_Witness ==
    /\ lastCall.op = "send" /\ lastCall.reached = "service"
    /\ Filter.userIds = Arr(<<GhostUser>>)
    /\ lastCall.error = "NotFoundError"
    /\ redisUp /\ Len(jobs) < MaxJobs

\* C6: a send request admitted by the route whose userIds, roles and classIds
\* are all empty or absent is rejected by the controller with a validation
\* error, before any directory lookup and before any queue operation.
C6_EmptyFilterRejected ==
    (lastCall.op = "send" /\ lastCall.reached # "authorize" /\ AllEmpty(Filter))
        => /\ lastCall.error = "ValidationError"
           /\ lastCall.reached = "controller"
           /\ lastCall.dbQueries = 0
           /\ ~lastCall.addCalled
           /\ lastCall.jobId = 0

\* the three arrays are present but empty, title and message are valid
C6_Witness ==
    /\ lastCall.op = "send" /\ lastCall.error = "ValidationError"
    /\ Filter.userIds = Arr(<<>>) /\ Filter.roles = Arr(<<>>) /\ Filter.classIds = Arr(<<>>)
    /\ lastCall.body.title = 1

\* C7: the resolved recipient list holds each user id at most once, for every
\* filter and directory, and recipientCount counts each user once.
C7_Dedup ==
    /\ \A i, k \in DOMAIN Resolved : i # k => Resolved[i] # Resolved[k]
    /\ (lastCall.op = "send" /\ lastCall.reached = "service" /\ lastCall.error = "")
          => lastCall.result.recipientCount = Cardinality(Range(Resolved))

\* u4 is listed explicitly (twice), holds a listed role and is the guardian of
\* both members of a listed class
C7_Witness ==
    /\ lastCall.reached = "service"
    /\ "u4" \in Listed(Filter.userIds) /\ "PARENT" \in Listed(Filter.roles)
    /\ "c1" \in Listed(Filter.classIds)
    /\ \A s \in StudentSet : students[s].classId = "c1" /\ students[s].parent = "u4"
    /\ "u4" \in Range(Resolved)

\* C8 (as claimed): for a filter that lists only roles, the resolved users
\* are exactly the active users holding a listed role.
C8_RolePathActiveOnly ==
    (lastCall.reached = "service" /\ NonEmpty(Filter.roles)
     /\ ~NonEmpty(Filter.userIds) /\ ~NonEmpty(Filter.classIds))
        => Range(Resolved) =
              {u \in UserSet : users[u].isActive /\ users[u].role \in Listed(Filter.roles)}

\* C9 (as claimed): for a filter that lists only classes, the resolved users
\* are exactly the staff assigned to a listed class plus the guardians of the
\* active members enrolled in a listed class.
C9_ClassPathActiveMembers ==
    (lastCall.reached = "service" /\ NonEmpty(Filter.classIds)
     /\ ~NonEmpty(Filter.userIds) /\ ~NonEmpty(Filter.roles))
        => Range(Resolved) =
              {r[1] : r \in {t \in teacherClass : t[2] \in Listed(Filter.classIds)}}
              \cup {students[s].parent :
                      s \in {m \in StudentSet : /\ students[m].classId \in Listed(Filter.classIds)
                                                /\ students[m].isActive
                                                /\ students[m].parent # NoParent}}

\* C10: the resolved set is the union of what the three paths select and
\* nothing else: an explicit id is included iff it is a row of the directory,
\* and every other member holds a listed role, is assigned to a listed class
\* or is the guardian of a member enrolled in a listed class.
ExplicitPath == Listed(Filter.userIds) \cap UserSet
RolePath == {u \in UserSet : users[u].role \in Listed(Filter.roles)}
ClassPath ==
    {u \in UserSet :
        \/ \E c \in Listed(Filter.classIds) : <<u, c>> \in teacherClass
        \/ \E s \in StudentSet : /\ students[s].classId \in Listed(Filter.classIds)
                                 /\ students[s].parent = u}

C10_UnionOfPaths ==
    lastCall.reached = "service"
        => /\ Range(Resolved) = ExplicitPath \cup RolePath \cup ClassPath
           /\ \A u \in Listed(Filter.userIds) : u \in Range(Resolved) <=> u \in UserSet

\* an unknown id listed next to a known one: only the known one is resolved
C10_Witness ==
    /\ lastCall.reached = "service"
    /\ GhostUser \in Listed(Filter.userIds) /\ "u4" \in Listed(Filter.userIds)
    /\ ~NonEmpty(Filter.roles) /\ ~NonEmpty(Filter.classIds)
    /\ Resolved = <<"u4">>

\* C15: a registerDevice call whose input userId differs from the requester's
\* id fails with a conflict error and leaves the device-token table (and the
\* upserts in flight) unchanged; no upsert ever runs for another user's id.
C15_MismatchRejected ==
    /\ [](\A c \in pending : c.userId = c.requester)
    /\ [][ (/\ lastCall' # lastCall
            /\ lastCall'.op = "register" /\ lastCall'.reached = "service"
            /\ lastCall'.device.userId # lastCall'.caller)
              => /\ lastCall'.error = "ConflictError"
                 /\ deviceTokens' = deviceTokens
                 /\ pending' = pending ]_vars

\* u5 tried to register a new token for u4 after other registrations ran
C15_Witness ==
    /\ lastCall.op = "register" /\ lastCall.error = "ConflictError"
    /\ lastCall.caller = "u5" /\ lastCall.device = Device("u4", "t9", "IOS")
    /\ ~HasRow("u4", "t9")
    /\ now > 0

C12_NoTokensCompletes ==
    /\ [](\A j \in DOMAIN jobs :
             /\ jobs[j].pc \in {"onesignal", "fcm"} => jobs[j].activeTokens # <<>>
             /\ \A i \in DOMAIN jobs[j].calls : jobs[j].calls[i].tokens # <<>>
             /\ (jobs[j].state = "completed" /\ jobs[j].status = "no-tokens")
                   => jobs[j].calls = <<>> /\ jobs[j].returnResults = <<>>)
    /\ [][ \A j \in DOMAIN jobs :
              (/\ jobs[j].pc = "lookup" /\ jobs'[j] # jobs[j]
               /\ getDeviceTokensForUsers(jobs[j].data.recipientUserIds) = <<>>)
                 => /\ jobs'[j].state = "completed"
                    /\ jobs'[j].status = "no-tokens"
                    /\ jobs'[j].attemptsMade = jobs[j].attemptsMade
                    /\ jobs'[j].failedReason = jobs[j].failedReason ]_vars

\* a job for the teachers, who registered no device, with both providers
\* configured
C12_Witness ==
    /\ oneSignalCfg /\ fcmCfg
    /\ \E j \in DOMAIN jobs :
          /\ jobs[j].data.recipientUserIds = <<"u2", "u3">>
          /\ jobs[j].state = "completed" /\ jobs[j].status = "no-tokens"

\* C13: a provider without configuration is never contacted and is recorded
\* as {success: false, reason: "Not configured"}; it never fails an attempt:
\* only a configured FCM makes a job fail or retry, and a job with active
\* tokens and both providers unconfigured completes as "sent" with the two
\* "Not configured" results.
C13_UnconfiguredSkipped ==
    \A j \in DOMAIN jobs :
        /\ \A i \in DOMAIN jobs[j].calls :
              /\ jobs[j].calls[i].provider = "onesignal" => oneSignalCfg
              /\ jobs[j].calls[i].provider = "fcm" => fcmCfg
        /\ (~oneSignalCfg /\ jobs[j].pc = "fcm")
              => jobs[j].results = <<NotConfigured("onesignal")>>
        /\ (jobs[j].attemptsMade > 0 \/ jobs[j].state \in {"delayed", "failed"}) => fcmCfg
        /\ (~oneSignalCfg /\ ~fcmCfg /\ jobs[j].state = "completed"
             /\ jobs[j].status = "sent")
              => /\ jobs[j].returnResults =
                       <<NotConfigured("onesignal"), NotConfigured("fcm")>>
                 /\ jobs[j].calls = <<>>

\* u4's active token was found, neither provider is configured
C13_Witness ==
    /\ ~oneSignalCfg /\ ~fcmCfg
    /\ \E j \in DOMAIN jobs :
          /\ "u4" \in Range(jobs[j].data.recipientUserIds)
          /\ jobs[j].state = "completed" /\ jobs[j].status = "sent"

\* token strings of the rows that are active and owned by one of `userIds`
ActiveTokensOf(userIds) ==
    {deviceTokens[i].token :
        i \in {k \in DOMAIN deviceTokens : /\ deviceTokens[k].isActive
                                            /\ deviceTokens[k].userId \in Range(userIds)}}

C14_TargetsExact ==
    [][ \A j \in DOMAIN jobs :
          /\ (jobs[j].pc = "lookup" /\ jobs'[j] # jobs[j])
                => /\ Range(jobs'[j].activeTokens) =
                         ActiveTokensOf(jobs[j].data.recipientUserIds)
                   /\ Len(jobs'[j].activeTokens) =
                         Cardinality({k \in DOMAIN deviceTokens :
                             /\ deviceTokens[k].isActive
                             /\ deviceTokens[k].userId \in
                                    Range(jobs[j].data.recipientUserIds)})
          /\ Len(jobs'[j].calls) > Len(jobs[j].calls)
                => /\ jobs'[j].calls[Len(jobs'[j].calls)].tokens = jobs[j].activeTokens
                   /\ jobs[j].activeTokens # <<>> ]_vars

\* u4 re-registered the second device before the lookup, u3 (not a
\* recipient of this job) holds an active token, u5's row is inactive:
\* OneSignal was handed u4's two tokens
C14_Witness ==
    /\ \E i \in DOMAIN deviceTokens :
          deviceTokens[i].userId = "u3" /\ deviceTokens[i].isActive
    /\ \E j \in DOMAIN jobs :
          /\ jobs[j].data.recipientUserIds = <<"u2", "u4">>
          /\ jobs[j].pc = "fcm"
          /\ jobs[j].calls = <<Call("onesignal", <<"t1", "t2">>)>>

\* the finished jobs the queue still stores
Listable ==
    {j \in DOMAIN jobs : jobs[j].stored /\ jobs[j].state \in {"completed", "failed"}}
ItemIds(items) == {items[i].id : i \in DOMAIN items}
Smaller(a, b) == IF a < b THEN a ELSE b

\* C17: a caller who is not SCHOOL_ADMIN is only ever shown jobs whose
\* recipientUserIds contain the caller's id; a SCHOOL_ADMIN is shown the
\* stored completed/failed jobs, each once, all of them up to the limit.
C17_ListScopedToCaller ==
    /\ []((lastCall.op = "list" /\ users[lastCall.caller].role # "SCHOOL_ADMIN")
            => \A i \in DOMAIN lastCall.items :
                  lastCall.caller \in Range(lastCall.items[i].recipientUserIds))
    /\ [][ (lastCall' # lastCall /\ lastCall'.op = "list" /\ lastCall'.error = "")
              => /\ ItemIds(lastCall'.items) \subseteq Listable
                 /\ Cardinality(ItemIds(lastCall'.items)) = Len(lastCall'.items)
                 /\ users[lastCall'.caller].role = "SCHOOL_ADMIN"
                       => Len(lastCall'.items) =
                             Smaller(queryLimit(lastCall'.query), Cardinality(Listable))
                 /\ users[lastCall'.caller].role # "SCHOOL_ADMIN"
                       => \A j \in ItemIds(lastCall'.items) :
                             lastCall'.caller \in Range(jobs[j].data.recipientUserIds) ]_vars

\* the teacher u2 lists without a limit: of the three stored jobs, the one
\* sent to u4 alone is left out
C17_Witness ==
    /\ lastCall.op = "list" /\ lastCall.caller = "u2" /\ lastCall.error = ""
    /\ ~lastCall.query.limit.present
    /\ Cardinality(Listable) = 3
    /\ Len(lastCall.items) = 2

\* C18: a list request with limit n in 1..100 is answered with at most n
\* items, one without limit with at most 50; a limit that is not a number or
\* lies outside 1..100 is answered with a validation error and no item.
C18_LimitBounds ==
    lastCall.op = "list"
        => IF lastCall.query.limit.present
           THEN LET parsed == parseInt(lastCall.query.limit.items)
                IN  IF parsed.nan \/ parsed.n < LimitMin \/ parsed.n > LimitMax
                    THEN lastCall.error = "ValidationError" /\ lastCall.items = <<>>
                    ELSE Len(lastCall.items) <= parsed.n
           ELSE Len(lastCall.items) <= DefaultLimit

\* the administrator lists without a limit while the queue stores more
\* than 50 failed jobs
C18_Witness ==
    /\ lastCall.op = "list" /\ lastCall.caller = "u1" /\ lastCall.error = ""
    /\ ~lastCall.query.limit.present
    /\ Cardinality(Listable) > DefaultLimit
    /\ Len(lastCall.items) = DefaultLimit

\* C19: the response to a send request is fixed by the caller's role, the
\* validation of the body, the resolved recipients and the outcome of
\* notificationQueue.add; when it is returned the job, if any, has not been
\* taken by a worker, and no later step of the job (provider outcome, retry,
\* final failure) changes what the caller was answered.
C19_ResponseBeforeDelivery ==
    /\ []((lastCall.op = "send")
            => /\ lastCall.error \in {"", "ForbiddenError", "ValidationError",
                                      "NotFoundError"}
               /\ lastCall.error = "ForbiddenError"
                     <=> users[lastCall.caller].role # "SCHOOL_ADMIN"
               /\ lastCall.error = "NotFoundError"
                     <=> (lastCall.reached = "service" /\ Resolved = <<>>)
               /\ lastCall.error = ""
                     => /\ lastCall.result.recipientCount = Len(Resolved)
                        /\ lastCall.result.queued <=> lastCall.add.ok)
    /\ [][ /\ (lastCall' # lastCall /\ lastCall'.op = "send" /\ lastCall'.jobId # 0)
                => /\ jobs'[lastCall'.jobId].state = "waiting"
                   /\ jobs'[lastCall'.jobId].attemptsMade = 0
                   /\ jobs'[lastCall'.jobId].calls = <<>>
           /\ (\E j \in DOMAIN jobs : jobs'[j] # jobs[j]) => lastCall' = lastCall ]_vars

\* the caller was answered queued: true and the job later failed for good
C19_Witness ==
    /\ lastCall.op = "send" /\ lastCall.result.queued
    /\ lastCall.jobId \in DOMAIN jobs
    /\ jobs[lastCall.jobId].state = "failed"
    /\ jobs[lastCall.jobId].failedReason # ""

\* C20: a send answered queued: true added exactly one job, in state
\* waiting, carrying the recipients resolved for that request, and left the
\* other jobs alone; a send answered queued: false or with an error added
\* none; and a job only ever appears together with such a queued: true
\* answer.
C20_QueuedIffJobAdded ==
    [][ /\ (lastCall' # lastCall /\ lastCall'.op = "send")
              => IF lastCall'.result.queued
                 THEN /\ Len(jobs') = Len(jobs) + 1
                      /\ \A j \in DOMAIN jobs : jobs'[j] = jobs[j]
                      /\ lastCall'.jobId = Len(jobs')
                      /\ jobs'[Len(jobs')].state = "waiting"
                      /\ jobs'[Len(jobs')].data.recipientUserIds
                            = lastCall'.recipientUserIds
                      /\ lastCall'.recipientUserIds # <<>>
                 ELSE jobs' = jobs
        /\ Len(jobs') # Len(jobs)
              => /\ lastCall' # lastCall
                 /\ lastCall'.op = "send" /\ lastCall'.result.queued ]_vars

\* the class notification was answered queued: true: one job, waiting,
\* carrying the three resolved recipients
C20_Witness ==
    /\ lastCall.op = "send" /\ lastCall.result.queued
    /\ Len(jobs) = 1 /\ lastCall.jobId = 1
    /\ jobs[1].state = "waiting"
    /\ jobs[1].data.recipientUserIds = <<"u2", "u3", "u4">>

\* C21: a completed job is gone from the queue's storage; a job failed for
\* good is stored with its failure reason, and no later step (enqueue,
\* processing, listing, signal, exit) changes or removes it.
C21_Retention ==
    /\ [](\A j \in DOMAIN jobs :
             /\ jobs[j].state = "completed" => ~jobs[j].stored
             /\ jobs[j].state = "failed"
                   => jobs[j].stored /\ jobs[j].failedReason # "")
    /\ [][ \A j \in DOMAIN jobs :
              jobs[j].state = "failed" => jobs'[j] = jobs[j] ]_vars

\* a job failed for good, was listed, and the worker process has exited
C21_Witness ==
    /\ proc = "exited"
    /\ lastCall.op = "list" /\ Len(lastCall.items) = 1
    /\ \E j \in DOMAIN jobs :
          /\ jobs[j].state = "failed" /\ jobs[j].stored
          /\ jobs[j].failedReason = "FCM send failed: 401 Unauthorized"

\* C22: a send request of an authenticated TEACHER or PARENT is answered
\* with ForbiddenError by authorize, before validation, recipient resolution
\* and enqueue, and leaves the queue as it was; every job in the queue was
\* initiated by a SCHOOL_ADMIN.
C22_OnlyAdminCreatesJobs ==
    /\ [](\A j \in DOMAIN jobs :
             users[jobs[j].data.initiatedBy].role = "SCHOOL_ADMIN")
    /\ []((lastCall.op = "send"
            /\ users[lastCall.caller].role \in {"TEACHER", "PARENT"})
           => /\ lastCall.error = "ForbiddenError"
              /\ lastCall.reached = "authorize"
              /\ lastCall.dbQueries = 0
              /\ lastCall.recipientUserIds = <<>>
              /\ ~lastCall.addCalled
              /\ lastCall.jobId = 0)
    /\ [][ (lastCall'.op = "send" /\ lastCall' # lastCall
             /\ users[lastCall'.caller].role \in {"TEACHER", "PARENT"})
            => jobs' = jobs ]_vars

\* a parent's request with an invalid body was refused as forbidden while
\* the administrator's job sat in the queue
C22_Witness ==
    /\ lastCall.op = "send" /\ lastCall.caller = "u4"
    /\ ~sendNotificationSchema(lastCall.body)
    /\ lastCall.error = "ForbiddenError"
    /\ Len(jobs) = 1 /\ jobs[1].state = "waiting"

\* C23: when the FCM call of an attempt raises and attempts are left, the
\* job is delayed and its next attempt starts at the token lookup and calls
\* every configured provider again, also OneSignal that already accepted
\* the notification; a provider accepts one job at most Attempts times.
C23_RetryResendsAll ==
    /\ [][ \A j \in DOMAIN jobs :
              /\ (jobs'[j].attemptsMade = jobs[j].attemptsMade + 1
                   /\ jobs'[j].attemptsMade < Attempts)
                  => /\ jobs'[j].state = "delayed"
                     /\ jobs'[j].delivered = jobs[j].delivered
              /\ (jobs[j].state = "waiting" /\ jobs'[j].state = "active")
                  => jobs'[j].pc = "lookup" /\ jobs'[j].calls = jobs[j].calls
              /\ (jobs[j].pc = "onesignal" /\ jobs'[j].pc = "fcm" /\ oneSignalCfg)
                  => jobs'[j].calls
                       = <<Call("onesignal", jobs[j].activeTokens)>>
            ]_vars
    /\ [](\A j \in DOMAIN jobs :
             /\ jobs[j].delivered.onesignal <= Attempts
             /\ jobs[j].delivered.fcm <= Attempts
             /\ jobs[j].delivered.onesignal <= jobs[j].attemptsMade + 1)

\* OneSignal accepted the same job in each of its three attempts
C23_Witness ==
    \E j \in DOMAIN jobs :
        /\ jobs[j].state = "failed" /\ jobs[j].attemptsMade = Attempts
        /\ jobs[j].delivered.onesignal = Attempts

\* C24: the result recorded for an attempt holds the outcome of both
\* providers: when the attempt returned, the two pushed results; when it
\* ended with a raise of FCM, OneSignal's outcome and FCM's
\* {success: false, reason}.
C24_OutcomesRecorded ==
    \A j \in DOMAIN jobs :
        /\ (jobs[j].state = "completed" /\ jobs[j].status = "sent")
            => /\ Len(jobs[j].returnResults) = 2
               /\ jobs[j].returnResults[1].provider = "onesignal"
               /\ jobs[j].returnResults[2].provider = "fcm"
        /\ (jobs[j].state \in {"delayed", "failed"} /\ jobs[j].attemptsMade >= 1)
            => /\ \E i \in DOMAIN jobs[j].returnResults :
                     jobs[j].returnResults[i].provider = "onesignal"
               /\ \E i \in DOMAIN jobs[j].returnResults :
                     jobs[j].returnResults[i]
                        = Failure("fcm", jobs[j].failedReason)

\* the providers the handler contacts in one attempt, in its order
ConfiguredCalls(tokens) ==
    (IF oneSignalCfg THEN <<Call("onesignal", tokens)>> ELSE <<>>)
    \o (IF fcmCfg THEN <<Call("fcm", tokens)>> ELSE <<>>)

\* C25: an attempt starts at the token lookup, goes on to OneSignal and then
\* to FCM; a provider is called only for an active job that is past its
\* lookup; the completed / delayed / failed state is written by the lookup
\* that found no token (no provider called) or by the step in which the
\* last provider call returned or raised, all configured providers called.
C25_AttemptOrder ==
    /\ [](\A j \in DOMAIN jobs :
             /\ jobs[j].pc # "" <=> jobs[j].state = "active"
             /\ jobs[j].pc \in {"onesignal", "fcm"}
                   => jobs[j].activeTokens # <<>>)
    /\ [][ \A j \in DOMAIN jobs :
              /\ (jobs[j].state # "active" /\ jobs'[j].state = "active")
                  => jobs[j].state = "waiting" /\ jobs'[j].pc = "lookup"
              /\ (jobs'[j].pc = "onesignal" /\ jobs[j].pc # "onesignal")
                  => jobs[j].pc = "lookup" /\ jobs'[j].calls = <<>>
              /\ (jobs'[j].pc = "fcm" /\ jobs[j].pc # "fcm")
                  => jobs[j].pc = "onesignal"
              /\ Len(jobs'[j].calls) > Len(jobs[j].calls)
                  => /\ jobs[j].state = "active"
                     /\ jobs[j].pc \in {"onesignal", "fcm"}
                     /\ jobs'[j].calls[Len(jobs'[j].calls)].tokens
                          = jobs[j].activeTokens
              /\ (jobs[j].state = "active" /\ jobs'[j].state # "active")
                  => \/ /\ jobs[j].pc = "lookup"
                        /\ jobs'[j].status = "no-tokens"
                        /\ jobs'[j].calls = <<>>
                     \/ /\ jobs[j].pc = "fcm"
                        /\ jobs'[j].calls = ConfiguredCalls(jobs[j].activeTokens)
            ]_vars

\* a second attempt went through lookup, OneSignal and FCM and completed
C25_Witness ==
    \E j \in DOMAIN jobs :
        /\ jobs[j].state = "completed" /\ jobs[j].status = "sent"
        /\ jobs[j].attemptsMade = 1
        /\ Len(jobs[j].calls) = 2

\* C26: at no time are more than Concurrency (5) jobs active, however many
\* jobs wait and however starts, finishes and retries interleave.
C26_BoundedConcurrency ==
    Cardinality({j \in DOMAIN jobs : jobs[j].state = "active"}) <= Concurrency

\* every slot is taken, one of them by a retried job, and a job still waits
C26_Witness ==
    /\ Cardinality({j \in DOMAIN jobs : jobs[j].state = "active"}) = Concurrency
    /\ \E j \in DOMAIN jobs : jobs[j].state = "waiting"
    /\ \E j \in DOMAIN jobs : jobs[j].state = "active" /\ jobs[j].attemptsMade >= 1

\* C27: under a worker that keeps running and calls that settle, every
\* enqueued job reaches completed or failed, and failed only with its
\* Attempts attempts used up.
C27_EveryJobTerminates ==
    /\ \A j \in 1..MaxJobs :
          (j \in DOMAIN jobs)
             ~> (j \in DOMAIN jobs /\ jobs[j].state \in {"completed", "failed"})
    /\ [](\A j \in DOMAIN jobs :
             jobs[j].state = "failed" => jobs[j].attemptsMade = Attempts)

\* a job went through all its attempts and failed
C27_Witness ==
    \E j \in DOMAIN jobs :
        /\ jobs[j].state = "failed"
        /\ jobs[j].attemptsMade = Attempts
        /\ jobs[j].pc = ""

\* the jobs that finished after job j
FinishedAfter(j) ==
    {k \in DOMAIN jobs : jobs[k].state \in {"completed", "failed"}
                            /\ jobs[k].finishedOn > jobs[j].finishedOn}

\* C28: a list answered to a SCHOOL_ADMIN holds every job that has reached
\* completed or failed and is among the `limit` most recently finished.
C28_FinishedJobsListed ==
    [][ (lastCall' # lastCall /\ lastCall'.op = "list" /\ lastCall'.error = ""
         /\ users[lastCall'.caller].role = "SCHOOL_ADMIN")
        => \A j \in DOMAIN jobs :
              (jobs[j].state \in {"completed", "failed"}
               /\ Cardinality(FinishedAfter(j)) < queryLimit(lastCall'.query))
              => j \in ItemIds(lastCall'.items) ]_vars

\* C29: the state of every listed item is the state its job ended in, and
\* a failed item carries the job's failure reason.
C29_ItemStateIsJobState ==
    (lastCall.op = "list" /\ lastCall.error = "")
    => \A i \in DOMAIN lastCall.items :
          LET item == lastCall.items[i]
          IN  /\ item.state = jobs[item.id].state
              /\ item.state = "failed"
                    => item.failedReason = jobs[item.id].failedReason

\* C30: once SIGTERM or SIGINT has been received the process takes no
\* waiting job and promotes no delayed one; it exits only from the closing
\* state with no job active; after the exit a job that waits keeps waiting.
C30_GracefulShutdown ==
    /\ [][ (proc # "running")
            => /\ proc' # "running"
               /\ \A j \in DOMAIN jobs :
                     /\ ~(jobs[j].state = "waiting" /\ jobs'[j].state = "active")
                     /\ ~(jobs[j].state = "delayed" /\ jobs'[j].state # "delayed")
          ]_vars
    /\ [][ (proc # "exited" /\ proc' = "exited")
            => /\ proc = "closing"
               /\ \A j \in DOMAIN jobs : jobs[j].state # "active" ]_vars
    /\ [][ (proc = "exited")
            => /\ proc' = "exited"
               /\ \A j \in DOMAIN jobs : jobs'[j] = jobs[j] ]_vars

\* the process has exited and a job that was never started waits in the
\* queue
C30_Witness ==
    /\ proc = "exited"
    /\ \E j \in DOMAIN jobs :
          /\ jobs[j].state = "waiting"
          /\ jobs[j].attemptsMade = 0
          /\ jobs[j].calls = <<>>

====
